---- MODULE Spec2Model ----
(***************************************************************************)
(* The chat-driven query dialogue of telegram_bot.py: the process-wide     *)
(* conversation_data mapping and the handlers that read and write it       *)
(* (button_callback, handle_message, the command handlers).                *)
(*                                                                         *)
(* Text is a sequence of one-character strings, so that strip() and int()  *)
(* are computed and not assumed.  A dict is a sequence of key/value pairs  *)
(* in insertion order, as Python keeps it.                                 *)
(***************************************************************************)
EXTENDS Integers, Sequences, FiniteSets, TLC

\* ------------------------------------------------------------------ bounds

\* Most blanks the environment puts before and after what a user types.
MaxPad == 1

\* What a user types, blanks aside: nothing, a word, a number.
Typed == {<<>>, <<"a">>, <<"7">>}

\* The user ids events arrive for: the user whose dialogue is explored in
\* full, and a second user who only starts a user_details query and answers
\* with a word.
Users == {"u1", "u2"}

\* ------------------------------------------------------------------ values

\* Values held in a session's data dict: str, int and bool, tagged so that
\* values of different Python types are never equal.
StrV(s) == [t |-> "str", s |-> s, n |-> 0]
IntV(n) == [t |-> "int", s |-> <<>>, n |-> n]
BoolV(b) == [t |-> "bool", s |-> <<>>, n |-> IF b THEN 1 ELSE 0]
NoValue == [t |-> "none", s |-> <<>>, n |-> 0]

\* ------------------------------------------------------------------ dicts

\* key in d
HasKey(d, k) == \E i \in 1..Len(d) : d[i].k = k

\* d[key] for a key that is present; d.get(key, default) otherwise
DictGet(d, k, default) ==
    IF HasKey(d, k)
    THEN d[CHOOSE i \in 1..Len(d) : d[i].k = k].v
    ELSE default

\* d[key] = value: a present key keeps its position, a new key goes last
DictSet(d, k, v) ==
    IF HasKey(d, k)
    THEN [i \in 1..Len(d) |-> IF d[i].k = k THEN [k |-> k, v |-> v] ELSE d[i]]
    ELSE Append(d, [k |-> k, v |-> v])

\* conversation_data[user_id] = session
StorePut(st, u, session) ==
    [x \in (DOMAIN st) \cup {u} |-> IF x = u THEN session ELSE st[x]]

\* Mutant of StoreDel: the del statement is missing.
StoreDel_Keep(st, u) == st

\* Mutant of StoreDel: the whole mapping is cleared.
StoreDel_All(st, u) == [x \in {} |-> st[x]]

\* del conversation_data[user_id], for an id that is present
StoreDel(st, u) == [x \in (DOMAIN st) \ {u} |-> st[x]]

\* {"command": command, "data": {}}
NewSession(command) == [command |-> command, data |-> <<>>]

\* ------------------------------------------------------------------ text

RECURSIVE LStrip(_)
LStrip(s) == IF s # <<>> /\ Head(s) = " " THEN LStrip(Tail(s)) ELSE s

RECURSIVE RStrip(_)
RStrip(s) ==
    IF s # <<>> /\ s[Len(s)] = " " THEN RStrip(SubSeq(s, 1, Len(s) - 1)) ELSE s

\* str.strip()
Strip(s) == RStrip(LStrip(s))

Digits == {"0", "1", "2", "3", "4", "5", "6", "7", "8", "9"}

DigitValue(c) ==
    CASE c = "0" -> 0 [] c = "1" -> 1 [] c = "2" -> 2 [] c = "3" -> 3
      [] c = "4" -> 4 [] c = "5" -> 5 [] c = "6" -> 6 [] c = "7" -> 7
      [] c = "8" -> 8 [] c = "9" -> 9

RECURSIVE DecimalValue(_)
DecimalValue(s) ==
    IF s = <<>> THEN 0
    ELSE 10 * DecimalValue(SubSeq(s, 1, Len(s) - 1)) + DigitValue(s[Len(s)])

\* the digits of a stripped numeral, its sign removed
Unsigned(t) == IF t # <<>> /\ Head(t) \in {"-", "+"} THEN Tail(t) ELSE t

\* int(s) succeeds: surrounding blanks, an optional sign, one or more digits
IsInt(s) ==
    LET t == Unsigned(Strip(s)) IN t # <<>> /\ \A i \in 1..Len(t) : t[i] \in Digits

\* int(s) for a string int() accepts
IntOf(s) ==
    LET t == Strip(s) IN
    IF t # <<>> /\ Head(t) = "-"
    THEN 0 - DecimalValue(Unsigned(t))
    ELSE DecimalValue(Unsigned(t))

\* ------------------------------------------------------------------ messages

\* The characters escape_markdown(version=2) puts a backslash before (the
\* backquote, which the lexer does not take in a string, is left out).
MarkdownSpecial ==
    {"\\", "_", "*", "[", "]", "(", ")", "~", ">", "#", "+", "-", "=", "|",
     "{", "}", ".", "!"}

\* escape_markdown(s, version=2): a backslash before each special character.
\* The text is escaped half by half, which gives the same result as escaping
\* it character by character.
RECURSIVE EscapeMarkdown(_)
EscapeMarkdown(s) ==
    IF s = <<>> THEN <<>>
    ELSE IF Len(s) = 1
    THEN (IF s[1] \in MarkdownSpecial THEN <<"\\", s[1]>> ELSE s)
    ELSE LET h == Len(s) \div 2 IN
         EscapeMarkdown(SubSeq(s, 1, h)) \o EscapeMarkdown(SubSeq(s, h + 1, Len(s)))

\* One outbound message: what it is, the field it asks for, the text it embeds.
Msg(type, field, text) == [type |-> type, field |-> field, text |-> text]

\* "Please use one of the commands first: ..."
HintMsg == Msg("no_active_session", "", <<>>)
\* the question for one field
Prompt(field) == Msg("prompt", field, <<>>)
\* "Please enter a valid number of days (or just press Enter for default 1)"
RetryDaysMsg == Msg("retry", "days", <<>>)
\* Mutant of ErrorMsg: the message leaves the description out.
ErrorMsg_Generic(text) == Msg("error", "", <<>>)

\* f"Error: {...}"
ErrorMsg(text) == Msg("error", "", text)
\* f"An error occurred: {exc}"
ErrorOccurredMsg(text) == Msg("error_occurred", "", text)
\* "Invalid command."
InvalidCommandMsg == Msg("invalid_command", "", <<>>)
\* the messages _send_split_messages sends for a fetched result
ResultMsg(include_links) ==
    Msg("result", IF include_links THEN "with_links" ELSE "no_links", <<>>)
\* the help texts and the welcome text
HelpMsg == Msg("help", "", <<>>)
WelcomeMsg == Msg("welcome", "", <<>>)
\* "... functionality is not yet implemented."
NotImplementedMsg(command) == Msg("not_implemented", command, <<>>)

\* ------------------------------------------------------------------ exceptions

NoExc == [name |-> "none", text |-> <<>>]
Exc(name, text) == [name |-> name, text |-> text]

\* What one run of a handler did: the store it leaves, the messages it sent,
\* the fetch calls it made, and the exception that left it (NoExc: none).
Outcome(st, out, fetches, exc) ==
    [store |-> st, out |-> out, fetches |-> fetches, exc |-> exc]

\* One call of a reddit_service function: its arguments, and the session's
\* data dict at the moment of the call.
FetchCall(fn, name, keywords, n, collected) ==
    [fn |-> fn, name |-> name, keywords |-> keywords, n |-> n,
     collected |-> collected]

\* ------------------------------------------------------------------ handle_message

\* Mutant of NameField: the subreddit branches store their first answer
\* under the key of the user branches.
NameField_AlwaysUsername(command) == "username"

\* The key the first field of a command is stored under.
NameField(command) ==
    IF command \in {"user_details", "user_top"} THEN "username" ELSE "subreddit"

\* Mutant of DefaultLimit: every list command has the default of user_top.
DefaultLimit_AlwaysThirty(command) == 30

\* The limit a blank answer stands for.
DefaultLimit(command) == IF command = "user_top" THEN 30 ELSE 20

\* the store with data[key] = value for the session of u
SetField(st, u, k, v) ==
    StorePut(st, u, [st[u] EXCEPT !.data = DictSet(st[u].data, k, v)])

\* await update.message.reply_text(msg) as the last statement of a branch
ReplyLast(st, msg, ok) ==
    IF ok THEN Outcome(st, <<msg>>, <<>>, NoExc)
    ELSE Outcome(st, <<>>, <<>>, Exc("TelegramError", <<>>))

\* The user_details branch of handle_message, up to the outer except.
UserDetailsText(st, u, user_input, fx, net) ==
    LET data == st[u].data IN
    IF ~HasKey(data, "username") THEN
        ReplyLast(SetField(st, u, "username", StrV(user_input)),
                  Prompt("days"), net.reply)
    ELSE IF ~HasKey(data, "days") THEN
        IF user_input # <<>> /\ ~IsInt(user_input) THEN
            \* int() raised ValueError
            IF net.err THEN Outcome(st, <<RetryDaysMsg>>, <<>>, NoExc)
            ELSE Outcome(st, <<>>, <<>>, Exc("TelegramError", <<>>))
        ELSE
            LET days == IF user_input # <<>> THEN IntOf(user_input) ELSE 1
                st1 == SetField(st, u, "days", IntV(days))
                d1 == st1[u].data
                call == FetchCall("get_account_details",
                                  DictGet(d1, "username", NoValue), NoValue,
                                  DictGet(d1, "days", NoValue), d1)
            IN  IF fx.ok THEN
                    Outcome(StoreDel(st1, u),
                            IF net.send THEN <<ResultMsg(TRUE)>> ELSE <<>>,
                            <<call>>, NoExc)
                ELSE IF net.err THEN
                    Outcome(StoreDel(st1, u), <<ErrorMsg(fx.desc)>>, <<call>>, NoExc)
                ELSE
                    Outcome(st1, <<>>, <<call>>, Exc("TelegramError", <<>>))
    ELSE Outcome(st, <<>>, <<>>, NoExc)

\* The user_top, subreddit_hot and subreddit_top branches of handle_message,
\* up to the outer except.
ListKindText(st, u, user_input, net) ==
    LET command == st[u].command
        data == st[u].data
    IN
    IF ~HasKey(data, NameField(command)) THEN
        ReplyLast(SetField(st, u, NameField(command), StrV(user_input)),
                  Prompt("keywords"), net.reply)
    ELSE IF ~HasKey(data, "keywords") THEN
        ReplyLast(SetField(st, u, "keywords", StrV(user_input)),
                  Prompt("limit"), net.reply)
    ELSE IF ~HasKey(data, "limit") THEN
        IF user_input # <<>> /\ ~IsInt(user_input) THEN
            Outcome(st, <<>>, <<>>, Exc("ValueError", user_input))
        ELSE
            LET limit == IF user_input # <<>> THEN IntOf(user_input)
                         ELSE DefaultLimit(command)
            IN  ReplyLast(SetField(st, u, "limit", IntV(limit)),
                          Prompt("include_links"), net.reply)
    ELSE Outcome(st, <<>>, <<>>, NoExc)

\* except Exception as exc: reply, then drop the session if it is still there
OuterExcept(r, u, net) ==
    IF r.exc = NoExc THEN r
    ELSE IF net.err2 THEN
        Outcome(IF u \in DOMAIN r.store THEN StoreDel(r.store, u) ELSE r.store,
                Append(r.out, ErrorOccurredMsg(r.exc.text)), r.fetches, NoExc)
    ELSE Outcome(r.store, r.out, r.fetches, Exc("TelegramError", <<>>))

\* Mutant of NoSession: the handler returns without replying.
NoSession_Silent(st, net) == Outcome(st, <<>>, <<>>, NoExc)

\* if user_id not in conversation_data: reply with the hint and return
NoSession(st, net) == ReplyLast(st, HintMsg, net.reply)

\* handle_message: a text message that is not a command
HandleMessage(st, u, text, fx, net) ==
    IF u \notin DOMAIN st THEN NoSession(st, net)
    ELSE
        LET user_input == Strip(text)
            command == st[u].command
        IN  OuterExcept(
                IF command = "user_details"
                THEN UserDetailsText(st, u, user_input, fx, net)
                ELSE IF command \in {"user_top", "subreddit_hot", "subreddit_top"}
                THEN ListKindText(st, u, user_input, net)
                ELSE Outcome(st, <<>>, <<>>, NoExc),
                u, net)

\* ------------------------------------------------------------------ button_callback

\* query.data: the text before the variable part, and the variable part.
Tok(prefix, rest) == [prefix |-> prefix, rest |-> rest]

ListKinds == {"user_top", "subreddit_hot", "subreddit_top"}
QueryKinds == {"user_details"} \cup ListKinds

\* The reddit_service function each list command calls.
FetchFunction(command) ==
    CASE command = "user_top" -> "get_top_30_captions"
      [] command = "subreddit_hot" -> "get_top_20_hot"
      [] command = "subreddit_top" -> "get_top_20_all_time"

\* if query.data.startswith("include_links_"): if user_id in conversation_data:
\* the field is stored, the fetch is made and the session is deleted (finally).
IncludeLinksStage(st, u, tok, fx, net) ==
    LET include_links == (tok.rest = <<"yes">>)
        st1 == SetField(st, u, "include_links", BoolV(include_links))
        command == st1[u].command
        data == st1[u].data
        gone == StoreDel(st1, u)
        \* except Exception as exc: reply_text(f"Error: {escape_markdown(str(exc))}")
        Caught(fetches, text) ==
            IF net.err
            THEN Outcome(gone, <<ErrorMsg(EscapeMarkdown(text))>>, fetches, NoExc)
            ELSE Outcome(gone, <<>>, fetches, Exc("TelegramError", <<>>))
    IN
    IF command \in ListKinds THEN
        IF ~HasKey(data, NameField(command)) THEN
            \* data["username"] / data["subreddit"] raises KeyError
            Caught(<<>>, <<NameField(command)>>)
        ELSE
            LET call == FetchCall(FetchFunction(command),
                                  DictGet(data, NameField(command), NoValue),
                                  DictGet(data, "keywords", StrV(<<>>)),
                                  DictGet(data, "limit", IntV(DefaultLimit(command))),
                                  data)
            IN  IF fx.ok
                THEN Outcome(gone,
                             IF net.send THEN <<ResultMsg(include_links)>> ELSE <<>>,
                             <<call>>, NoExc)
                ELSE Caught(<<call>>, fx.desc)
    ELSE
        \* reply_text("Invalid command."); return
        IF net.reply THEN Outcome(gone, <<InvalidCommandMsg>>, <<>>, NoExc)
        ELSE Caught(<<>>, <<>>)

\* the return statement of the include_links_ branch is reached
IncludeLinksReturns(st, u, tok, net) ==
    /\ tok.prefix = "include_links_"
    /\ u \in DOMAIN st
    /\ st[u].command \notin ListKinds
    /\ net.reply

\* await query.edit_message_text(msg) after the statements that gave r
ThenEdit(r, st, msg, ok) ==
    IF ok THEN Outcome(st, Append(r.out, msg), r.fetches, NoExc)
    ELSE Outcome(st, r.out, r.fetches, Exc("TelegramError", <<>>))

\* Mutant of StartSession: the data dict of a session already there is kept.
StartSession_KeepData(st, u, command) ==
    StorePut(st, u, [command |-> command,
                     data |-> IF u \in DOMAIN st THEN st[u].data ELSE <<>>])

\* conversation_data[user_id] = {"command": command, "data": {}}
StartSession(st, u, command) == StorePut(st, u, NewSession(command))

\* "Start the appropriate conversation": the if/elif chain over query.data
StartStage(r, u, tok, net) ==
    LET st == r.store IN
    IF tok.rest = <<>> /\ tok.prefix \in QueryKinds THEN
        ThenEdit(r, StartSession(st, u, tok.prefix),
                 Prompt(NameField(tok.prefix)), net.reply)
    ELSE IF tok = Tok("no_keywords", <<>>) /\ u \in DOMAIN st THEN
        LET st1 == SetField(st, u, "keywords", StrV(<<>>)) IN
        IF st1[u].command \in ListKinds
        THEN ThenEdit(r, st1, Prompt("limit"), net.reply)
        ELSE Outcome(st1, r.out, r.fetches, NoExc)
    ELSE r

\* if query.data.startswith("limit_"): if user_id in conversation_data:
LimitStage(r, u, tok, net) ==
    LET st == r.store IN
    IF tok.prefix = "limit_" /\ u \in DOMAIN st THEN
        IF ~IsInt(tok.rest) THEN
            \* int(query.data.split("_")[1]) raises ValueError
            Outcome(st, r.out, r.fetches, Exc("ValueError", tok.rest))
        ELSE
            LET st1 == SetField(st, u, "limit", IntV(IntOf(tok.rest))) IN
            IF st1[u].command \in ListKinds
            THEN ThenEdit(r, st1, Prompt("include_links"), net.reply)
            ELSE Outcome(st1, r.out, r.fetches, NoExc)
    ELSE r

\* button_callback: a press of an inline button
ButtonCallback(st, u, tok, fx, net) ==
    IF ~net.answer THEN Outcome(st, <<>>, <<>>, Exc("TelegramError", <<>>))
    ELSE IF tok = Tok("help", <<>>) THEN ReplyLast(st, HelpMsg, net.reply)
    ELSE
        LET r1 == IF tok.prefix = "include_links_" /\ u \in DOMAIN st
                  THEN IncludeLinksStage(st, u, tok, fx, net)
                  ELSE Outcome(st, <<>>, <<>>, NoExc)
        IN  IF r1.exc # NoExc \/ IncludeLinksReturns(st, u, tok, net) THEN r1
            ELSE LET r2 == StartStage(r1, u, tok, net) IN
                 IF r2.exc # NoExc THEN r2 ELSE LimitStage(r2, u, tok, net)

\* ------------------------------------------------------------------ commands

Commands == {"start", "help"} \cup QueryKinds

\* The CommandHandler callbacks build_application registers.
CommandHandler(st, u, name, net) ==
    ReplyLast(st,
              CASE name = "start" -> WelcomeMsg
                [] name = "help" -> HelpMsg
                [] OTHER -> NotImplementedMsg(name),
              net.reply)

\* ------------------------------------------------------------------ _format_json_as_text: its texts

\* A character outside ASCII is written U+ and its code point: one element of
\* a text, as it is one character of a Python str.

\* text[:n]
Take(s, n) == SubSeq(s, 1, IF n < Len(s) THEN n ELSE Len(s))

\* sep.join(parts)
RECURSIVE Join(_, _)
Join(parts, sep) ==
    IF parts = <<>> THEN <<>>
    ELSE IF Len(parts) = 1 THEN parts[1]
    ELSE LET h == Len(parts) \div 2 IN
         Join(SubSeq(parts, 1, h), sep) \o sep
            \o Join(SubSeq(parts, h + 1, Len(parts)), sep)

\* str(n) for n >= 0
RECURSIVE Decimal(_)
Decimal(n) ==
    LET d == <<"0", "1", "2", "3", "4", "5", "6", "7", "8", "9">>[(n % 10) + 1] IN
    IF n < 10 THEN <<d>> ELSE Decimal(n \div 10) \o <<d>>

\* the last three digits of n, zeros kept
ThreeDigits(n) ==
    LET d == Decimal(n % 1000) IN
    IF Len(d) = 1 THEN <<"0", "0">> \o d ELSE IF Len(d) = 2 THEN <<"0">> \o d ELSE d

\* f"{n:,}" for n >= 0
RECURSIVE Grouped(_)
Grouped(n) ==
    IF n < 1000 THEN Decimal(n)
    ELSE Grouped(n \div 1000) \o <<",">> \o ThreeDigits(n)

\* f"{n:,}"
WithCommas(n) == IF n < 0 THEN <<"-">> \o Grouped(0 - n) ELSE Grouped(n)

\* The fixed texts of the formatter.
UserIcon ==
    <<"U+00F0", "U+0178", "U+2018", "U+00A4">>
SubredditIcon ==
    <<"U+00F0", "U+0178", "U+201C", "U+00B1", " ", "r", "/">>
KeywordsIcon ==
    <<"U+00F0", "U+0178", "U+201D", " ", "'">>
UpvotesIcon ==
    <<"U+00F0", "U+0178", "U+201C", "U+0160", " ">>
UpvotesText ==
    <<" ", "u", "p", "v", "o", "t", "e", "s", " ", "|", " ", "r", "/">>
LinkOpen ==
    <<"U+00F0", "U+0178", "U+201D", "U+2014", " ", "[", "L", "i", "n", "k",
      "]", "(", "h", "t", "t", "p", "s", ":", "/", "/", "w", "w", "w", ".",
      "r", "e", "d", "d", "i", "t", ".", "c", "o", "m">>
NoResultsText ==
    <<"U+00E2", "U+0152", " ", "N", "o", " ", "r", "e", "s", "u", "l", "t",
      "s", " ", "f", "o", "u", "n", "d", ".">>
NoTitleText ==
    <<"N", "o", " ", "t", "i", "t", "l", "e">>
UnknownText ==
    <<"u", "n", "k", "n", "o", "w", "n">>
HeaderSep ==
    <<" ", "|", " ">>

\* ------------------------------------------------------------------ fetched data

\* A JSON value as json.loads gives it: str, int, bool, None, list and dict,
\* tagged as the values of a session are.  A dict is its key/value pairs in
\* insertion order.
JStr(s) == [t |-> "str", s |-> s, n |-> 0, items |-> <<>>]
JInt(n) == [t |-> "int", s |-> <<>>, n |-> n, items |-> <<>>]
JBool(b) == [t |-> "bool", s |-> <<>>, n |-> IF b THEN 1 ELSE 0, items |-> <<>>]
JNone == [t |-> "none", s |-> <<>>, n |-> 0, items |-> <<>>]
JList(items) == [t |-> "list", s |-> <<>>, n |-> 0, items |-> items]
JDict(pairs) == [t |-> "dict", s |-> <<>>, n |-> 0, items |-> pairs]

\* one key/value pair of a dict
KV(k, v) == [k |-> k, v |-> v]

\* d.get(key) of a dict value
JGet(d, k) == DictGet(d.items, k, JNone)

\* bool(v)
Truthy(v) ==
    CASE v.t = "str" -> v.s # <<>>
      [] v.t \in {"int", "bool"} -> v.n # 0
      [] v.t \in {"list", "dict"} -> v.items # <<>>
      [] OTHER -> FALSE

\* seq[:n]
PySlice(seq, n) ==
    IF n >= 0 THEN Take(seq, n)
    ELSE IF Len(seq) + n > 0 THEN Take(seq, Len(seq) + n) ELSE <<>>

\* The string escapes of json.dumps, for ASCII text.
RECURSIVE JsonEscape(_)
JsonEscape(s) ==
    IF s = <<>> THEN <<>>
    ELSE IF Len(s) = 1
    THEN (CASE s[1] = "\"" -> <<"\\", "\"">>
            [] s[1] = "\\" -> <<"\\", "\\">>
            [] s[1] = "\n" -> <<"\\", "n">>
            [] OTHER -> s)
    ELSE LET h == Len(s) \div 2 IN
         JsonEscape(SubSeq(s, 1, h)) \o JsonEscape(SubSeq(s, h + 1, Len(s)))

\* str(n)
Str(n) == IF n < 0 THEN <<"-">> \o Decimal(0 - n) ELSE Decimal(n)

\* the blanks before a line at nesting depth d of json.dumps(indent=2)
Indent(d) == [i \in 1..(2 * d) |-> " "]

\* The characters of a key of the fetched dicts.
KeyText(k) ==
    CASE k = "username" -> <<"u", "s", "e", "r", "n", "a", "m", "e">>
      [] k = "subreddit" -> <<"s", "u", "b", "r", "e", "d", "d", "i", "t">>
      [] k = "keywords" -> <<"k", "e", "y", "w", "o", "r", "d", "s">>
      [] k = "limit" -> <<"l", "i", "m", "i", "t">>
      [] k = "captions_only" -> <<"c", "a", "p", "t", "i", "o", "n", "s", "_", "o", "n", "l", "y">>
      [] k = "results" -> <<"r", "e", "s", "u", "l", "t", "s">>
      [] k = "title" -> <<"t", "i", "t", "l", "e">>
      [] k = "upvotes" -> <<"u", "p", "v", "o", "t", "e", "s">>
      [] k = "permalink" -> <<"p", "e", "r", "m", "a", "l", "i", "n", "k">>
      [] k = "link" -> <<"l", "i", "n", "k">>
      [] k = "period_days" -> <<"p", "e", "r", "i", "o", "d", "_", "d", "a", "y", "s">>
      [] k = "account_age_days" -> <<"a", "c", "c", "o", "u", "n", "t", "_", "a", "g", "e", "_", "d", "a", "y", "s">>
      [] k = "post_karma" -> <<"p", "o", "s", "t", "_", "k", "a", "r", "m", "a">>
      [] k = "comment_karma" -> <<"c", "o", "m", "m", "e", "n", "t", "_", "k", "a", "r", "m", "a">>
      [] k = "posts_submitted" -> <<"p", "o", "s", "t", "s", "_", "s", "u", "b", "m", "i", "t", "t", "e", "d">>
      [] k = "deleted_posts" -> <<"d", "e", "l", "e", "t", "e", "d", "_", "p", "o", "s", "t", "s">>
      [] k = "removed_by_mods" -> <<"r", "e", "m", "o", "v", "e", "d", "_", "b", "y", "_", "m", "o", "d", "s">>
      [] k = "removed_by_spam" -> <<"r", "e", "m", "o", "v", "e", "d", "_", "b", "y", "_", "s", "p", "a", "m">>
      [] k = "removed_by_rules" -> <<"r", "e", "m", "o", "v", "e", "d", "_", "b", "y", "_", "r", "u", "l", "e", "s">>
      [] k = "total_upvotes" -> <<"t", "o", "t", "a", "l", "_", "u", "p", "v", "o", "t", "e", "s">>
      [] k = "total_comments" -> <<"t", "o", "t", "a", "l", "_", "c", "o", "m", "m", "e", "n", "t", "s">>
      [] k = "highest_posts" -> <<"h", "i", "g", "h", "e", "s", "t", "_", "p", "o", "s", "t", "s">>
      [] k = "removed_posts_links" -> <<"r", "e", "m", "o", "v", "e", "d", "_", "p", "o", "s", "t", "s", "_", "l", "i", "n", "k", "s">>

\* json.dumps(v, indent=2), v at nesting depth d
RECURSIVE JsonDump(_, _)
JsonDump(v, d) ==
    LET Open(c) == <<c, "\n">> \o Indent(d + 1)
        Sep == <<",", "\n">> \o Indent(d + 1)
        Close(c) == <<"\n">> \o Indent(d) \o <<c>>
        Quoted(s) == <<"\"">> \o JsonEscape(s) \o <<"\"">>
    IN
    CASE v.t = "str" -> Quoted(v.s)
      [] v.t = "int" -> Str(v.n)
      [] v.t = "bool" -> IF v.n = 1 THEN <<"t", "r", "u", "e">>
                         ELSE <<"f", "a", "l", "s", "e">>
      [] v.t = "none" -> <<"n", "u", "l", "l">>
      [] v.t = "list" ->
            IF v.items = <<>> THEN <<"[", "]">>
            ELSE Open("[")
                 \o Join([i \in 1..Len(v.items) |-> JsonDump(v.items[i], d + 1)], Sep)
                 \o Close("]")
      [] v.t = "dict" ->
            IF v.items = <<>> THEN <<"{", "}">>
            ELSE Open("{")
                 \o Join([i \in 1..Len(v.items) |->
                            Quoted(KeyText(v.items[i].k)) \o <<":", " ">>
                               \o JsonDump(v.items[i].v, d + 1)], Sep)
                 \o Close("}")

\* What a fetch hands to the formatter: a text json.loads rejects, or the JSON
\* text of a dict, held as the value json.loads gives back for it.
NotJson(raw) == [parses |-> FALSE, raw |-> raw, data |-> JNone]
Json(data) == [parses |-> TRUE, raw |-> <<>>, data |-> data]

\* ------------------------------------------------------------------ _format_json_as_text: the function

\* The cap of the formatted list text.
FormatCap == 4000

\* The limit of a result that carries none.
FormatDefaultLimit == 10

\* header_parts
HeaderParts(data) ==
    (IF HasKey(data.items, "username")
     THEN <<UserIcon \o <<" ">> \o EscapeMarkdown(JGet(data, "username").s)>>
     ELSE <<>>)
    \o (IF HasKey(data.items, "subreddit")
        THEN <<SubredditIcon \o EscapeMarkdown(JGet(data, "subreddit").s)>>
        ELSE <<>>)
    \o (IF Truthy(JGet(data, "keywords"))
        THEN <<KeywordsIcon \o EscapeMarkdown(JGet(data, "keywords").s) \o <<"'">>>>
        ELSE <<>>)

\* lines before the loop: the header and an empty line, or nothing
HeaderLines(data) ==
    IF HeaderParts(data) # <<>> THEN <<Join(HeaderParts(data), HeaderSep), <<>>>>
    ELSE <<>>

\* The lines one pass of the loop appends for the i-th item.
ItemLines(item, i, include_links) ==
    LET title == EscapeMarkdown(DictGet(item.items, "title", JStr(NoTitleText)).s)
        up == DictGet(item.items, "upvotes", JInt(0)).n
        link == DictGet(item.items, "permalink", JStr(<<>>)).s
        sub == EscapeMarkdown(DictGet(item.items, "subreddit", JStr(UnknownText)).s)
    IN  <<<<"*">> \o Str(i) \o <<".", " ">> \o title \o <<"*">>,
          UpvotesIcon \o WithCommas(up) \o UpvotesText \o sub>>
        \o (IF include_links THEN <<LinkOpen \o link \o <<")">>>> ELSE <<>>)
        \o << <<>> >>

\* results[:data.get("limit", 10)]
ShownItems(data) ==
    PySlice(JGet(data, "results").items,
            DictGet(data.items, "limit", JInt(FormatDefaultLimit)).n)

\* the concatenation of a sequence of sequences
RECURSIVE Flatten(_)
Flatten(ss) ==
    IF ss = <<>> THEN <<>>
    ELSE IF Len(ss) = 1 THEN ss[1]
    ELSE LET h == Len(ss) \div 2 IN
         Flatten(SubSeq(ss, 1, h)) \o Flatten(SubSeq(ss, h + 1, Len(ss)))

\* lines, after the loop
FormatLines(data, include_links) ==
    HeaderLines(data)
    \o Flatten([i \in 1..Len(ShownItems(data)) |->
                  ItemLines(ShownItems(data)[i], i, include_links)])

\* text[:4000]
CapText(text) == Take(text, FormatCap)

\* _format_json_as_text(data_json, include_links)
FormatJsonAsText(payload, include_links) ==
    IF ~payload.parses THEN EscapeMarkdown(payload.raw)
    ELSE IF JGet(payload.data, "results").t = "list" THEN
        LET text == Join(FormatLines(payload.data, include_links), <<"\n">>) IN
        IF text # <<>> THEN CapText(text) ELSE NoResultsText
    ELSE EscapeMarkdown(JsonDump(payload.data, 0))

\* ------------------------------------------------------------------ _send_split_messages

MAX_CAPTIONS_PER_MESSAGE == 20
MAX_TELEGRAM_MESSAGE_LENGTH == 4096

\* The block separator.
BlockSep == <<"\n", "\n">>

\* The first index at or after p where two line breaks stand, 0 if none.
FindSep(s, p) ==
    LET at == {i \in p..(Len(s) - 1) : s[i] = "\n" /\ s[i + 1] = "\n"} IN
    IF at = {} THEN 0 ELSE CHOOSE i \in at : \A j \in at : i <= j

\* s[p:].split("\n\n"), p counted from 1
RECURSIVE SplitFrom(_, _)
SplitFrom(s, p) ==
    LET i == FindSep(s, p) IN
    IF i = 0 THEN <<SubSeq(s, p, Len(s))>>
    ELSE <<SubSeq(s, p, i - 1)>> \o SplitFrom(s, i + 2)

\* text.split("\n\n")
SplitCaptions(text) == SplitFrom(text, 1)

\* [captions[i:i + 20] for i in range(0, len(captions), 20)]
Batches(captions) ==
    LET n == Len(captions)
        m == MAX_CAPTIONS_PER_MESSAGE
    IN  [b \in 1..((n + m - 1) \div m) |->
            SubSeq(captions, m * (b - 1) + 1, IF m * b < n THEN m * b ELSE n)]

\* message.rfind('\n', 0, end): the position, counted from 0, of the last
\* line break among the first end characters, -1 if there is none
RFindNewline(message, end) ==
    LET at == {i \in 1..(IF end < Len(message) THEN end ELSE Len(message)) :
                 message[i] = "\n"}
    IN  IF at = {} THEN -1 ELSE (CHOOSE i \in at : \A j \in at : j <= i) - 1

\* Mutant of SplitIndex: no cut is made.
SplitIndex_End(message) == Len(message)

\* split_index
SplitIndex(message) ==
    IF RFindNewline(message, MAX_TELEGRAM_MESSAGE_LENGTH) = -1
    THEN MAX_TELEGRAM_MESSAGE_LENGTH
    ELSE RFindNewline(message, MAX_TELEGRAM_MESSAGE_LENGTH)

\* The text passed to send_message for one batch.
BatchMessage(batch) ==
    LET message == Join(batch, BlockSep) IN
    IF Len(message) > MAX_TELEGRAM_MESSAGE_LENGTH
    THEN Take(message, SplitIndex(message))
    ELSE message

\* _send_split_messages(context, chat_id, text, parse_mode): the texts passed
\* to send_message, in order, and the entries logged; accepted tells whether
\* the transport takes the messages.
SendSplitMessages(text, accepted) ==
    LET batches == Batches(SplitCaptions(text))
        calls == [b \in 1..Len(batches) |-> BatchMessage(batches[b])]
    IN  [calls |-> calls,
         log |-> IF accepted THEN <<>>
                 ELSE [b \in 1..Len(batches) |-> "Error sending message"]]

\* ------------------------------------------------------------------ fetched results explored

\* Most items of the results explored with every echo, keyword and limit.
MaxSmallItems == 3

\* The length of the titles of the long results.
LongTitleLen == 150

\* The length of the long texts that are no JSON.
RawLen == 5000

\* n times the character c
Repeat(c, n) == [i \in 1..n |-> c]

\* A title of n characters; its second character is one escape_markdown escapes.
TitleOf(n) == [i \in 1..n |-> IF i = 2 THEN "_" ELSE "t"]

NameText ==
    <<"b", "o", "b">>
SubredditText ==
    <<"p", "i", "c", "s">>
KeywordsText ==
    <<"k", "_", "w">>
PermalinkPrefix ==
    <<"/", "r", "/", "p", "i", "c", "s", "/", "c", "o", "m", "m", "e", "n",
      "t", "s", "/">>
RedditUrl ==
    <<"h", "t", "t", "p", "s", ":", "/", "/", "w", "w", "w", ".", "r", "e",
      "d", "d", "i", "t", ".", "c", "o", "m">>

\* The score of the j-th submission of a listing: listings come best first.
UpvotesOf(j) == (100 - j) * 617

PermalinkOf(j) == PermalinkPrefix \o Str(j) \o <<"/">>

\* The dict reddit_service builds for the j-th submission of a listing; the
\* subreddit listings leave the subreddit key out.
ResultItem(j, title, with_subreddit) ==
    JDict(<<KV("title", JStr(title)), KV("upvotes", JInt(UpvotesOf(j)))>>
          \o (IF with_subreddit THEN <<KV("subreddit", JStr(SubredditText))>> ELSE <<>>)
          \o <<KV("permalink", JStr(PermalinkOf(j)))>>)

\* The data dict of a list fetch: get_top_30_captions echoes the username,
\* get_top_20_hot and get_top_20_all_time the subreddit; echo "none" is a
\* result that carries neither, which the formatter takes as well.
ListResult(echo, keywords, limit, titles) ==
    Json(JDict(
        (CASE echo = "username" -> <<KV("username", JStr(NameText))>>
           [] echo = "subreddit" -> <<KV("subreddit", JStr(SubredditText))>>
           [] OTHER -> <<>>)
        \o <<KV("keywords", JStr(keywords)), KV("limit", JInt(limit)),
             KV("captions_only", JBool(FALSE)),
             KV("results",
                JList([j \in 1..Len(titles) |->
                         ResultItem(j, titles[j], echo # "subreddit")]))>>))

\* the titles of n submissions: short ones, long ones
ShortTitles(n) == [j \in 1..n |-> TitleOf(3)]
LongTitles(n) == [j \in 1..n |-> TitleOf(LongTitleLen)]

Echoes == {"username", "subreddit", "none"}

\* Results of few items: every echo, without and with keywords, a limit
\* below and above the number of items.
SmallResults ==
    {ListResult(echo, keywords, limit, ShortTitles(n)) :
        echo \in Echoes, keywords \in {<<>>, KeywordsText}, limit \in {2, 50},
        n \in 0..MaxSmallItems}

\* Results of many short items, around the 20 captions of a message.
ManyResults ==
    {ListResult(echo, <<>>, 50, ShortTitles(n)) :
        echo \in Echoes, n \in {19, 20, 21, 45}}

\* The 30 posts of a default user_top query, with long titles.
LongResults == {ListResult("username", <<>>, 30, LongTitles(30))}

\* 21 titles of such lengths that, without links, the header and the first 19
\* items with the separators after them take up the formatter's cap exactly.
FitTitles == [j \in 1..21 |-> TitleOf(IF j = 1 THEN 181 ELSE 172)]

\* 21 posts of a user_top query whose titles are FitTitles.
FitResults == {ListResult("username", <<>>, 30, FitTitles)}

\* The data dict of get_account_details for an account whose submissions in
\* the period, with the titles given, were all removed by moderators.
AccountDetails(titles) ==
    LET n == Len(titles) IN
    Json(JDict(<<
        KV("username", JStr(NameText)),
        KV("period_days", JInt(1)),
        KV("account_age_days", JInt(400)),
        KV("post_karma", JInt(1200)),
        KV("comment_karma", JInt(-3)),
        KV("posts_submitted", JInt(n)),
        KV("deleted_posts", JInt(n)),
        KV("removed_by_mods", JInt(n)),
        KV("removed_by_spam", JInt(0)),
        KV("removed_by_rules", JInt(0)),
        KV("total_upvotes", JInt(n * 617)),
        KV("total_comments", JInt(0)),
        KV("highest_posts",
           JList([j \in 1..(IF n < 5 THEN n ELSE 5) |-> ResultItem(j, titles[j], TRUE)])),
        KV("removed_posts_links",
           JList([j \in 1..n |->
                    JDict(<<KV("title", JStr(titles[j])),
                            KV("subreddit", JStr(SubredditText)),
                            KV("link", JStr(RedditUrl \o PermalinkOf(j)))>>)]))>>))

\* Account details of an idle account, of a small one and of a busy one.
AccountResults ==
    {AccountDetails(ShortTitles(0)), AccountDetails(ShortTitles(2)),
     AccountDetails(LongTitles(12))}

\* Texts that are no JSON: a short one, one that ends with the block
\* separator, one with consecutive separators, a long line, a long line after
\* a line break, and 20 blocks that are longer together than one message.
RawTexts ==
    {<<"o", "o", "p", "s">>,
     <<"a", "\n", "\n">>,
     <<"a", "\n", "\n", "\n", "\n", "b">>,
     Repeat("x", RawLen),
     <<"\n">> \o Repeat("x", RawLen),
     Join([i \in 1..20 |-> <<"b">> \o Str(i) \o <<"\n">> \o Repeat("x", 2 * LongTitleLen)],
          BlockSep)}

Payloads ==
    SmallResults \cup ManyResults \cup LongResults \cup FitResults
    \cup AccountResults
    \cup {NotJson(raw) : raw \in RawTexts}

\* ------------------------------------------------------------------ environment

\* n blanks
Blanks(n) == [i \in 1..n |-> " "]

\* The text messages user u sends.
TextsOf(u) ==
    IF u = "u1"
    THEN {Blanks(n) \o t \o Blanks(n) : n \in 0..MaxPad, t \in Typed}
    ELSE {<<"a">>}

\* The limits the keyboards offer are 10, 20, 30, 40 and 50; the first and
\* the last of them are pressed here.
LimitPresets == {<<"1", "0">>, <<"5", "0">>}

\* The callback data the bot's own keyboards carry.
KeyboardTokens ==
    {Tok(c, <<>>) : c \in QueryKinds \cup {"help", "no_keywords"}}
    \cup {Tok("limit_", d) : d \in LimitPresets}
    \cup {Tok("include_links_", <<"yes">>), Tok("include_links_", <<"no">>)}

\* Callback data no keyboard of the bot carries: a client is free to send any.
ForeignTokens ==
    {Tok("limit_", <<"9", "9">>), Tok("limit_", <<"x">>),
     Tok("include_links_", <<"maybe">>), Tok("other", <<>>)}

\* The buttons user u presses.
TokensOf(u) ==
    IF u = "u1" THEN KeyboardTokens \cup ForeignTokens
    ELSE {Tok("user_details", <<>>)}

\* The commands user u sends: those a handler is registered for, and /cancel,
\* for which build_application registers none.
CommandsOf(u) == IF u = "u1" THEN Commands \cup {"cancel"} ELSE {}

\* What the application does with a command: it runs the registered
\* CommandHandler; a command without one matches no handler (the
\* MessageHandler filters commands out) and nothing runs.
DispatchCommand(st, u, name, net) ==
    IF name \in Commands THEN CommandHandler(st, u, name, net)
    ELSE Outcome(st, <<>>, <<>>, NoExc)

\* What a reddit_service call does: it returns, or raises RuntimeError(desc).
Returned == [ok |-> TRUE, desc |-> <<>>]
Raised(desc) == [ok |-> FALSE, desc |-> desc]
FetchOutcomes == {Returned, Raised(<<"e", "_">>)}

\* The transport accepts every call.
Reliable ==
    [answer |-> TRUE, reply |-> TRUE, send |-> TRUE, err |-> TRUE, err2 |-> TRUE]

\* ------------------------------------------------------------------ state

VARIABLES
    store,  \* conversation_data
    last,   \* the event handled last, the store before it and what the handler did
    job,    \* a fetched result on its way through the formatter and the chunker
    fetched,  \* a call of one of reddit_service's list functions and its result
    web,    \* the web application: the searches table, the last request and its response
    running \* per user id, the handler suspended at an await, if any

vars == <<store, last, job, fetched, web, running>>

EmptyStore == [x \in {} |-> NewSession("")]

NoToken == Tok("", <<>>)

\* No result is being delivered.
NoJob ==
    [stage |-> "none", payload |-> NotJson(<<>>), include_links |-> TRUE,
     text |-> <<>>, calls |-> <<>>, log |-> <<>>, accepted |-> TRUE]

\* No list function has been called.
NoFetch == [stage |-> "none"]

\* The web application after create_app: an empty searches table, no request.
NoWeb == [searches |-> <<>>, stage |-> "none"]

\* No handler is running for any user.
NoneRunning == [u \in Users |-> [phase |-> "idle"]]

Handled(u, kind, text, tok, pre, r, fx) ==
    [user |-> u, kind |-> kind, text |-> text, token |-> tok, pre |-> pre,
     out |-> r.out, fetches |-> r.fetches, exc |-> r.exc, fx |-> fx]

Init ==
    /\ store = EmptyStore
    /\ last = Handled("", "none", <<>>, NoToken, EmptyStore,
                      Outcome(EmptyStore, <<>>, <<>>, NoExc), Returned)
    /\ job = NoJob
    /\ fetched = NoFetch
    /\ web = NoWeb
    /\ running = NoneRunning

\* The collaborator's outcome is an input of the runs that call it only.
Drawn(fx, r) == fx.ok \/ r.fetches # <<>>

\* handle_message runs on the text message of user u.
TextEvent(u, text, fx, net) ==
    LET r == HandleMessage(store, u, text, fx, net) IN
    /\ Drawn(fx, r)
    /\ store' = r.store
    /\ last' = Handled(u, "text", text, NoToken, store, r, fx)
    /\ UNCHANGED <<job, fetched, web, running>>

\* button_callback runs on the button user u pressed.
ButtonEvent(u, tok, fx, net) ==
    LET r == ButtonCallback(store, u, tok, fx, net) IN
    /\ Drawn(fx, r)
    /\ store' = r.store
    /\ last' = Handled(u, "button", <<>>, tok, store, r, fx)
    /\ UNCHANGED <<job, fetched, web, running>>

\* The application dispatches the /command of user u.
CommandEvent(u, name, net) ==
    LET r == DispatchCommand(store, u, name, net) IN
    /\ store' = r.store
    /\ last' = Handled(u, "command", <<>>, Tok(name, <<>>), store, r, Returned)
    /\ UNCHANGED <<job, fetched, web, running>>

\* A text message arrives and handle_message runs.
TextMessage(nets) ==
    \E u \in Users, fx \in FetchOutcomes, net \in nets : \E text \in TextsOf(u) :
        TextEvent(u, text, fx, net)

\* An inline button is pressed and button_callback runs.
ButtonPress(nets) ==
    \E u \in Users, fx \in FetchOutcomes, net \in nets : \E tok \in TokensOf(u) :
        ButtonEvent(u, tok, fx, net)

\* A /command arrives and its CommandHandler runs.
CommandInvocation(nets) ==
    \E u \in Users, net \in nets : \E name \in CommandsOf(u) :
        CommandEvent(u, name, net)

Next ==
    \/ TextMessage({Reliable})
    \/ ButtonPress({Reliable})
    \/ CommandInvocation({Reliable})

Spec == Init /\ [][Next]_vars

\* ------------------------------------------------------------------ formatting and sending

\* A fetch has returned payload; the handler goes on to format and send it.
InitFormat ==
    /\ store = EmptyStore
    /\ last = Handled("", "none", <<>>, NoToken, EmptyStore,
                      Outcome(EmptyStore, <<>>, <<>>, NoExc), Returned)
    /\ \E payload \in Payloads, include_links \in BOOLEAN :
          job = [NoJob EXCEPT !.stage = "fetched", !.payload = payload,
                              !.include_links = include_links]
    /\ fetched = NoFetch
    /\ web = NoWeb
    /\ running = NoneRunning

\* text = _format_json_as_text(result_json, include_links=include_links)
FormatResult ==
    /\ job.stage = "fetched"
    /\ job' = [job EXCEPT !.stage = "formatted",
                          !.text = FormatJsonAsText(job.payload, job.include_links)]
    /\ UNCHANGED <<store, last, fetched, web, running>>

\* await _send_split_messages(context, chat_id, text, ParseMode.MARKDOWN)
SendSplit ==
    /\ job.stage = "formatted"
    /\ \E accepted \in BOOLEAN :
          LET r == SendSplitMessages(job.text, accepted) IN
          job' = [job EXCEPT !.stage = "sent", !.calls = r.calls, !.log = r.log,
                             !.accepted = accepted]
    /\ UNCHANGED <<store, last, fetched, web, running>>

NextFormat == FormatResult \/ SendSplit

FormatSpec == InitFormat /\ [][NextFormat]_vars

\* ------------------------------------------------------------------ the dialogue's contract

\* The fields each query kind asks for, in the order it asks for them.
Fields(kind) ==
    CASE kind = "user_details" -> <<"username", "days">>
      [] kind = "user_top" -> <<"username", "keywords", "limit", "include_links">>
      [] kind \in {"subreddit_hot", "subreddit_top"} ->
            <<"subreddit", "keywords", "limit", "include_links">>

\* What the user typed, the blanks around it aside.
TypedOf(text) ==
    CHOOSE t \in Typed : \E n \in 0..Len(text) : text = Blanks(n) \o t \o Blanks(n)

\* The number a numeral of the model's inputs stands for.
Numeral(s) ==
    CASE s = <<"7">> -> 7
      [] s = <<"1", "0">> -> 10
      [] s = <<"5", "0">> -> 50
      [] s = <<"9", "9">> -> 99

Numerals == {<<"7">>, <<"1", "0">>, <<"5", "0">>, <<"9", "9">>}

\* The default of each integer field.
FieldDefault(kind) ==
    CASE kind = "user_details" -> 1
      [] kind = "user_top" -> 30
      [] kind \in {"subreddit_hot", "subreddit_top"} -> 20

\* the keys of a data dict in insertion order
Keys(d) == [i \in 1..Len(d) |-> d[i].k]

\* The last event found a session for its user.
HadSession == last.user \in DOMAIN last.pre
PreKind == last.pre[last.user].command
PreData == last.pre[last.user].data

\* The session the last event found holds the first fields of its kind, in
\* order, and not yet all of them: the dialogue is at CurrentField.
AtField ==
    /\ HadSession
    /\ PreKind \in QueryKinds
    /\ Len(PreData) < Len(Fields(PreKind))
    /\ Keys(PreData) = SubSeq(Fields(PreKind), 1, Len(PreData))
CurrentField == Fields(PreKind)[Len(PreData) + 1]

IsText == last.kind = "text"
IsButton == last.kind = "button"
IsStart == IsButton /\ last.token.rest = <<>> /\ last.token.prefix \in QueryKinds

\* The last event is a valid answer to the question for CurrentField.
ValidSubmit ==
    /\ AtField
    /\ CASE CurrentField \in {"username", "subreddit"} -> IsText
         [] CurrentField = "keywords" ->
                IsText \/ (IsButton /\ last.token = Tok("no_keywords", <<>>))
         [] CurrentField \in {"days", "limit"} ->
                \/ IsText /\ TypedOf(last.text) \in Numerals \cup {<<>>}
                \/ /\ CurrentField = "limit" /\ IsButton
                   /\ last.token.prefix = "limit_" /\ last.token.rest \in LimitPresets
         [] CurrentField = "include_links" ->
                /\ IsButton /\ last.token.prefix = "include_links_"
                /\ last.token.rest \in {<<"yes">>, <<"no">>}

\* The value a valid answer gives to CurrentField.
SubmittedValue ==
    CASE CurrentField \in {"username", "subreddit", "keywords"} ->
            StrV(IF IsText THEN TypedOf(last.text) ELSE <<>>)
      [] CurrentField \in {"days", "limit"} ->
            IntV(IF IsButton THEN Numeral(last.token.rest)
                 ELSE IF TypedOf(last.text) = <<>> THEN FieldDefault(PreKind)
                 ELSE Numeral(TypedOf(last.text)))
      [] CurrentField = "include_links" -> BoolV(last.token.rest = <<"yes">>)

\* The collected data after a valid answer.
Expected == Append(PreData, [k |-> CurrentField, v |-> SubmittedValue])

\* the i-th value of a data dict
ValueAt(d, i) == d[i].v

\* C1: for every query kind, a start leaves an empty session and makes no
\* fetch; each valid answer given in declaration order appends the submitted
\* value to the collected data and makes no fetch while a field is missing;
\* the answer to the last field makes exactly one fetch, and at that moment the
\* collected data holds every field of the kind once, in declaration order,
\* with the submitted values, which are the arguments of the fetch.
C1_ScriptedDialogueDispatchesOnce ==
    /\ IsStart =>
          /\ last.fetches = <<>>
          /\ last.user \in DOMAIN store
          /\ store[last.user] = [command |-> last.token.prefix, data |-> <<>>]
    /\ ValidSubmit =>
          IF Len(Expected) < Len(Fields(PreKind))
          THEN /\ last.fetches = <<>>
               /\ last.user \in DOMAIN store
               /\ store[last.user] = [command |-> PreKind, data |-> Expected]
          ELSE /\ Len(last.fetches) = 1
               /\ last.fetches[1].collected = Expected
               /\ Keys(last.fetches[1].collected) = Fields(PreKind)
               /\ last.fetches[1].name = ValueAt(Expected, 1)
               /\ IF PreKind = "user_details"
                  THEN /\ last.fetches[1].fn = "get_account_details"
                       /\ last.fetches[1].n = ValueAt(Expected, 2)
                  ELSE /\ last.fetches[1].fn = FetchFunction(PreKind)
                       /\ last.fetches[1].keywords = ValueAt(Expected, 2)
                       /\ last.fetches[1].n = ValueAt(Expected, 3)

\* C1 witness: the answer to the last field of a subreddit_top dialogue, whose
\* earlier answers were a padded word, the no-keywords button and a typed
\* number, has made the fetch.
C1_Witness ==
    /\ ValidSubmit
    /\ PreKind = "subreddit_top"
    /\ CurrentField = "include_links"
    /\ PreData = <<[k |-> "subreddit", v |-> StrV(<<"a">>)],
                   [k |-> "keywords", v |-> StrV(<<>>)],
                   [k |-> "limit", v |-> IntV(7)]>>
    /\ Len(last.fetches) = 1

\* C2: the fetch collaborator is never invoked while a field of the session's
\* kind is still uncollected, whatever order texts and buttons arrive in.
C2_FetchOnlyWhenComplete ==
    \A i \in 1..Len(last.fetches) :
        \A j \in 1..Len(Fields(PreKind)) :
            HasKey(last.fetches[i].collected, Fields(PreKind)[j])

\* The last event is an answer by button: no_keywords, limit_* or include_links_*.
IsChoice ==
    /\ IsButton
    /\ \/ last.token = Tok("no_keywords", <<>>)
       \/ last.token.prefix \in {"limit_", "include_links_"}

\* The last event is a field submission: free text or an answer by button.
IsSubmit == IsText \/ IsChoice

\* C3: a handler that has invoked the fetch leaves its session id absent from
\* the store, whether the fetch returned or raised; a submission for that id
\* that follows finds no active session: it changes nothing, fetches nothing,
\* and a text is answered with the hint.
C3_DispatchEndsSession ==
    [][/\ last'.fetches # <<>> => last'.user \notin DOMAIN store'
       /\ ( /\ last.fetches # <<>>
            /\ last'.user = last.user
            /\ last'.kind = "text" \/ ( /\ last'.kind = "button"
                                        /\ \/ last'.token = Tok("no_keywords", <<>>)
                                           \/ last'.token.prefix \in
                                                {"limit_", "include_links_"} ) )
          => /\ store' = store
             /\ last'.fetches = <<>>
             /\ last'.out = IF last'.kind = "text" THEN <<HintMsg>> ELSE <<>>
      ]_vars

\* C3 witness: a fetch was invoked and raised, and the session is gone.
C3_Witness ==
    /\ last.fetches # <<>>
    /\ ~last.fx.ok
    /\ HadSession
    /\ last.user \notin DOMAIN store

\* C4: a free text that is no integer, sent when an integer field (days or
\* limit) is the field asked for, leaves the store as it was and is answered
\* with one message asking for the same field again.
C4_InvalidIntegerReprompts ==
    ( /\ IsText
      /\ AtField
      /\ CurrentField \in {"days", "limit"}
      /\ TypedOf(last.text) \notin Numerals \cup {<<>>} )
    => /\ store = last.pre
       /\ Len(last.out) = 1
       /\ last.out[1].type \in {"prompt", "retry"}
       /\ last.out[1].field = CurrentField

\* C5: a field submission for an id with no entry in the store leaves the
\* whole store unchanged and invokes no fetch; a free text is answered with
\* the start-a-command-first hint.
C5_NoSessionSubmitIsInert ==
    (IsSubmit /\ ~HadSession)
    => /\ store = last.pre
       /\ last.fetches = <<>>
       /\ IsText => last.out = <<Msg("no_active_session", "", <<>>)>>

\* C5 witness: a text of a user without a session was answered with the hint
\* while another user's session, with a field collected, sits in the store.
C5_Witness ==
    /\ IsText
    /\ ~HadSession
    /\ last.out # <<>>
    /\ \E v \in DOMAIN store : v # last.user /\ store[v].data # <<>>

\* C6: after a start event the store holds, for that id, a session of the
\* requested kind with empty collected data, whatever the id held before.
C6_StartReplacesSession ==
    IsStart
    => /\ last.user \in DOMAIN store
       /\ store[last.user].command = last.token.prefix
       /\ store[last.user].data = <<>>

\* C6 witness: a start found a partly filled session of another kind.
C6_Witness ==
    /\ IsStart
    /\ HadSession
    /\ PreKind # last.token.prefix
    /\ Len(PreData) >= 2
    /\ last.user \in DOMAIN store

\* C7: the collected data of every session holds only fields of the
\* session's query kind.
C7_OnlyOwnFields ==
    \A u \in DOMAIN store :
        \A i \in 1..Len(store[u].data) :
            \E j \in 1..Len(Fields(store[u].command)) :
                store[u].data[i].k = Fields(store[u].command)[j]

\* C8: a command /user_details, /user_top, /subreddit_hot or /subreddit_top
\* leaves in the store a session of that kind with empty collected data for
\* the invoking id.
C8_CommandStartsSession ==
    (last.kind = "command" /\ last.token.prefix \in QueryKinds)
    => /\ last.user \in DOMAIN store
       /\ store[last.user] = [command |-> last.token.prefix, data |-> <<>>]

\* The choices each field's keyboard offers.
OfferedChoice ==
    CASE CurrentField = "keywords" -> last.token = Tok("no_keywords", <<>>)
      [] CurrentField = "limit" ->
            /\ last.token.prefix = "limit_"
            /\ last.token.rest \in {<<"1", "0">>, <<"2", "0">>, <<"3", "0">>,
                                    <<"4", "0">>, <<"5", "0">>}
      [] CurrentField = "include_links" ->
            /\ last.token.prefix = "include_links_"
            /\ last.token.rest \in {<<"yes">>, <<"no">>}
      [] OTHER -> FALSE

\* C9: an answer by button that is not one of the choices offered for the
\* session's current field is ignored: the store stays as it was and no
\* fetch is invoked.
C9_OutOfSetChoiceIgnored ==
    (IsChoice /\ AtField /\ ~OfferedChoice)
    => /\ store = last.pre
       /\ last.fetches = <<>>

\* A message text as the chat shows it: each backslash gone, the character
\* after it kept.
RECURSIVE Rendered(_)
Rendered(s) ==
    IF s = <<>> THEN <<>>
    ELSE IF Head(s) = "\\" /\ Len(s) >= 2
    THEN <<s[2]>> \o Rendered(SubSeq(s, 3, Len(s)))
    ELSE <<Head(s)>> \o Rendered(Tail(s))

\* C10: when the fetch raises, the handler has invoked it once, sends one
\* message, an error message that carries the failure description, sends no
\* result message, and leaves no session that could fetch again.
C10_FetchFailureReported ==
    (last.fetches # <<>> /\ ~last.fx.ok)
    => /\ Len(last.fetches) = 1
       /\ Len(last.out) = 1
       /\ last.out[1].type = "error"
       /\ Rendered(last.out[1].text) = last.fx.desc
       /\ last.user \notin DOMAIN store

\* C10 witness: the fetch of a user_details dialogue raised on the free-text
\* path and the error message went out.
C10_Witness ==
    /\ IsText
    /\ last.fetches # <<>>
    /\ ~last.fx.ok
    /\ last.out # <<>>

\* ------------------------------------------------------------------ the formatter's and the chunker's contract

\* The result being delivered has been formatted; its messages have been sent.
Formatted == job.stage \in {"formatted", "sent"}
Sent == job.stage = "sent"

\* The fetch was a list fetch: its data carries a list of results.
IsListJob == job.payload.parses /\ JGet(job.payload.data, "results").t = "list"

\* The items the fetch supplied and the limit it was asked for.
FetchedItems == JGet(job.payload.data, "results").items
RequestedLimit == JGet(job.payload.data, "limit").n

Min(a, b) == IF a < b THEN a ELSE b

\* The blocks of a text: its parts between block separators.
BlocksOf(text) == SplitCaptions(text)

\* part occurs in s
Contains(s, part) ==
    \E i \in 1..(Len(s) - Len(part) + 1) : SubSeq(s, i, i + Len(part) - 1) = part

\* The words of the no-results notice, its icon aside.
NoticeWords == SubSeq(NoResultsText, 4, Len(NoResultsText))

\* C11: the formatted text of a list result without items is one block, and
\* that block carries the no-results notice, whether or not the result echoes
\* a username, a subreddit or keywords.
C11_EmptyResultGivesNotice ==
    (Formatted /\ IsListJob /\ FetchedItems = <<>>)
    => /\ Len(BlocksOf(job.text)) = 1
       /\ Contains(BlocksOf(job.text)[1], NoticeWords)

\* s without the line break at its end, if it has one
DropBreak(s) == IF s # <<>> /\ s[Len(s)] = "\n" THEN SubSeq(s, 1, Len(s) - 1) ELSE s

\* The item blocks of a formatted list text: its blocks after the header
\* block, none for the notice.
ItemBlocks(text) ==
    LET blocks == BlocksOf(text)
        body == IF HeaderLines(job.payload.data) # <<>> THEN Tail(blocks) ELSE blocks
    IN  IF text = NoResultsText THEN <<>>
        ELSE [i \in 1..Len(body) |-> DropBreak(body[i])]

\* The block of the j-th fetched item: its lines, the empty line after them
\* aside.
ExpectedBlock(j) ==
    LET lines == ItemLines(FetchedItems[j], j, job.include_links) IN
    Join(SubSeq(lines, 1, Len(lines) - 1), <<"\n">>)

\* The number of items the formatter is to show.
ShownCount == Min(Len(FetchedItems), RequestedLimit)

\* C12: the formatted text of a list result of N items with limit L holds,
\* in the order of the fetch, one block for each of the first min(N, L) items
\* and no other item block.
C12_OneBlockPerItemUpToLimit ==
    (Formatted /\ IsListJob)
    => ItemBlocks(job.text) = [j \in 1..ShownCount |-> ExpectedBlock(j)]

\* The blocks of a message that are item blocks: an item block starts with
\* the asterisk of its title line.
ItemBlocksIn(message) ==
    LET blocks == BlocksOf(message) IN
    SelectSeq(blocks, LAMBDA b : b # <<>> /\ b[1] = "*")

\* s starts with prefix
StartsWith(s, prefix) == Len(s) >= Len(prefix) /\ SubSeq(s, 1, Len(prefix)) = prefix

\* C13: the items of a list result are delivered at most 20 to a message,
\* each message filled before the next is started, in the order of the
\* fetch: the number of messages is the number of items shown divided by 20,
\* rounded up, every message but the last holds 20 items, and the items are
\* numbered 1, 2, ... through the messages.  45 items give 20, 20 and 5.
C13_TwentyItemsPerMessage ==
    (Sent /\ IsListJob /\ ShownCount > 0)
    => /\ Len(job.calls) = (ShownCount + 19) \div 20
       /\ \A m \in 1..Len(job.calls) :
             Len(ItemBlocksIn(job.calls[m])) = Min(20, ShownCount - 20 * (m - 1))
       /\ LET delivered == Flatten([m \in 1..Len(job.calls) |->
                                      ItemBlocksIn(job.calls[m])])
          IN  \A j \in 1..Len(delivered) :
                 StartsWith(delivered[j], <<"*">> \o Str(j) \o <<".">>)

\* A block of the text that is longer than one message.
OverlongBlock ==
    \E i \in 1..Len(BlocksOf(job.text)) :
        Len(BlocksOf(job.text)[i]) > MAX_TELEGRAM_MESSAGE_LENGTH

\* C14: the messages passed to the transport, joined with the block
\* separator, are the text the chunker was given; if they are not, a block of
\* the text is longer than one message by itself and the loss was logged.
C14_MessagesReconstructText ==
    Sent
    => \/ Join(job.calls, BlockSep) = job.text
       \/ OverlongBlock /\ job.log # <<>>

\* The text of the list result before the formatter's cap.
Uncapped == Join(FormatLines(job.payload.data, job.include_links), <<"\n">>)

\* The formatter has shortened the text.
Capped == IsListJob /\ Len(Uncapped) > FormatCap

\* The blocks to deliver: those of the formatted text, and for a text the
\* formatter has shortened those it had before the cut.
RenderedBlocks == IF Capped THEN BlocksOf(Uncapped) ELSE BlocksOf(job.text)

\* The places a block is found whole in the messages: message and position.
PlacesOf(block) ==
    {<<m, k>> \in (1..Len(job.calls)) \X (1..(MAX_CAPTIONS_PER_MESSAGE + 1)) :
        /\ k <= Len(BlocksOf(job.calls[m]))
        /\ BlocksOf(job.calls[m])[k] = block}

\* C15: when no block is longer than one message, every block is found
\* whole in exactly one place of the messages sent.
C15_NoBlockSplit ==
    (Sent /\ \A i \in 1..Len(RenderedBlocks) :
                Len(RenderedBlocks[i]) <= MAX_TELEGRAM_MESSAGE_LENGTH)
    => \A i \in 1..Len(RenderedBlocks) :
          Cardinality(PlacesOf(RenderedBlocks[i])) = 1

\* C16: every message passed to the transport is at most 4096 characters
\* long, whether the text came from a list result, from account details or
\* from a fetch output that is no JSON.
C16_MessageWithinTransportMaximum ==
    Sent => \A m \in 1..Len(job.calls) : Len(job.calls[m]) <= 4096

\* C16 witness: the account details of a busy account, longer than one
\* message when formatted, have been sent.
C16_Witness ==
    /\ Sent
    /\ job.payload.parses
    /\ ~IsListJob
    /\ Len(job.text) > 4096
    /\ job.calls # <<>>

\* The number of asterisks of a text that no backslash stands before.
Asterisks(s) ==
    Cardinality({i \in 1..Len(s) : s[i] = "*" /\ (i = 1 \/ s[i - 1] # "\\")})

\* whole was cut to kept at the end of a line: a line break stands right
\* before or right after the cut
CutAtLineEnd(whole, kept) ==
    \/ kept # <<>> /\ kept[Len(kept)] = "\n"
    \/ whole[Len(kept) + 1] = "\n"

\* The batches of the chunker, each as one text.
JoinedBatches ==
    LET batches == Batches(SplitCaptions(job.text)) IN
    [b \in 1..Len(batches) |-> Join(batches[b], BlockSep)]

\* C17: a text the formatter has shortened to its cap of 4000 characters
\* ends at the end of a line; a message the chunker has shortened to the
\* transport maximum ends at the end of a line; and no message sent ends inside
\* a bold span, that is with an odd number of asterisks.
C17_CutsFallAtLineEnds ==
    /\ (Formatted /\ Capped) => CutAtLineEnd(Uncapped, job.text)
    /\ Sent =>
          \A m \in 1..Len(job.calls) :
             /\ job.calls[m] # JoinedBatches[m]
                   => CutAtLineEnd(JoinedBatches[m], job.calls[m])
             /\ IsListJob => Asterisks(job.calls[m]) % 2 = 0

\* C18: for a text that is not empty the chunker passes at least one message
\* to the transport, and none of its messages is the empty string.
C18_NoEmptyMessage ==
    (Sent /\ job.text # <<>>)
    => /\ job.calls # <<>>
       /\ \A m \in 1..Len(job.calls) : job.calls[m] # <<>>

\* ------------------------------------------------------------------ the dialogue's contract (continued)

\* The last event is a blank text sent when an integer field is asked for.
BlankInteger ==
    /\ IsText
    /\ AtField
    /\ CurrentField \in {"days", "limit"}
    /\ Strip(last.text) = <<>>

\* C19: a blank text sent when an integer field is the field asked for
\* advances the dialogue with the field's default: the limit 30 of user_top
\* and the limit 20 of subreddit_hot and subreddit_top are stored and the next
\* field is asked for; for the days field of user_details the fetch is made
\* with days = 1.
C19_BlankIntegerTakesDefault ==
    BlankInteger
    => IF PreKind = "user_details"
       THEN /\ Len(last.fetches) = 1
            /\ last.fetches[1].fn = "get_account_details"
            /\ last.fetches[1].name = ValueAt(PreData, 1)
            /\ last.fetches[1].n = IntV(1)
       ELSE /\ last.fetches = <<>>
            /\ last.user \in DOMAIN store
            /\ store[last.user].command = PreKind
            /\ store[last.user].data =
                  Append(PreData,
                         [k |-> "limit",
                          v |-> IntV(IF PreKind = "user_top" THEN 30 ELSE 20)])
            /\ last.out = <<Prompt("include_links")>>

\* C19 witness: a text of blanks only answered the limit question of a
\* subreddit_hot dialogue, and the session holds a limit.
C19_Witness ==
    /\ BlankInteger
    /\ last.text # <<>>
    /\ PreKind = "subreddit_hot"
    /\ last.user \in DOMAIN store
    /\ HasKey(store[last.user].data, "limit")

\* The last handler told the user of an error: "Error: ...", "An error
\* occurred: ..." or "Invalid command.".
ErrorReported ==
    \E i \in 1..Len(last.out) :
        last.out[i].type \in {"error", "error_occurred", "invalid_command"}

\* C20: a session that was in the store before an event and is not the same
\* after it belongs to the user of the event, and the event was a dispatch
\* (the fetch was invoked, whether it returned or raised), an input the
\* handler gave up on with an error message, or a start, which leaves a
\* fresh session in its place; a session is absent afterwards only in the
\* first two cases, and the sessions of all other ids are as they were.
C20_SessionRemovedOnlyByDispatchErrorOrStart ==
    \A v \in DOMAIN last.pre :
        /\ v \notin DOMAIN store
              => /\ v = last.user
                 /\ last.fetches # <<>> \/ ErrorReported
        /\ v # last.user => v \in DOMAIN store /\ store[v] = last.pre[v]
        /\ (v \in DOMAIN store /\ store[v].command # last.pre[v].command)
              => v = last.user /\ IsStart

\* C20 witness: a dispatch of one user removed that user's session while the
\* session of another user, one field collected, stayed as it was.
C20_Witness ==
    /\ HadSession
    /\ last.fetches # <<>>
    /\ last.user \notin DOMAIN store
    /\ \E v \in DOMAIN store :
          /\ v \in DOMAIN last.pre
          /\ store[v].data # <<>>
          /\ store[v] = last.pre[v]

\* C27: a free text sent to an id that has a session is answered with at
\* least one message or changes the store; no session state swallows it.
C27_TextNeverDropped ==
    (IsText /\ HadSession) => (last.out # <<>> \/ store # last.pre)

\* The fetch was get_account_details: its data carries highest_posts and no
\* results.
IsAccountJob ==
    /\ job.payload.parses
    /\ ~IsListJob
    /\ HasKey(job.payload.data.items, "highest_posts")

\* The highlighted posts of the account details.
HighlightedPosts == JGet(job.payload.data, "highest_posts").items

\* C23: the formatted text of account details is one summary block followed
\* by one block for each highlighted post, at most 5 of them, in the order of
\* the fetch: the block after the j-th carries the score of the j-th post.
C23_AccountDetailsBlocks ==
    (Formatted /\ IsAccountJob)
    => /\ Len(HighlightedPosts) <= 5
       /\ Len(BlocksOf(job.text)) = 1 + Len(HighlightedPosts)
       /\ \A j \in 1..Len(HighlightedPosts) :
             Contains(BlocksOf(job.text)[j + 1],
                      Str(JGet(HighlightedPosts[j], "upvotes").n))

\* The last event is the cancel command.
IsCancel == last.kind = "command" /\ last.token.prefix = "cancel"

\* C24: a cancel event leaves the store without a session for its id and
\* with every other session as it was: a session that is present is removed,
\* an absent one changes nothing, and a second cancel changes nothing more.
C24_CancelRemovesSession ==
    IsCancel
    => /\ last.user \notin DOMAIN store
       /\ DOMAIN store = DOMAIN last.pre \ {last.user}
       /\ \A v \in DOMAIN store : store[v] = last.pre[v]

\* The free texts of a list result: the echoed name and keywords, and the
\* titles of the items shown.
FreeTextsOfResult ==
    {JGet(job.payload.data, k).s :
        k \in {k \in {"username", "subreddit", "keywords"} :
                 Truthy(JGet(job.payload.data, k))}}
    \cup {JGet(FetchedItems[j], "title").s : j \in 1..ShownCount}

\* C22: the free text embedded in an outbound message is embedded escaped:
\* the text of every message that reports a failed fetch is the escaped
\* failure description, on the button path and on the free-text path, and the
\* formatted text of a list result that was not shortened holds the escaped
\* form of the name, the keywords and every title shown.
C22_FreeTextEscaped ==
    /\ (last.fetches # <<>> /\ ~last.fx.ok)
          => \A i \in 1..Len(last.out) :
                last.out[i].type = "error"
                   => last.out[i].text = EscapeMarkdown(last.fx.desc)
    /\ (Formatted /\ IsListJob /\ ~Capped)
          => \A t \in FreeTextsOfResult : Contains(job.text, EscapeMarkdown(t))


\* ------------------------------------------------ unreliable transport
\* What the transport does with each call of one handler run: the callback
\* answer, a prompt or edit, a result message, the reply of an inner except
\* clause and the reply of the outer except clause each succeed or raise.
Transports ==
    [answer : BOOLEAN, reply : BOOLEAN, send : BOOLEAN, err : BOOLEAN,
     err2 : BOOLEAN]

\* The events of one user who goes through a user_details and a user_top
\* dialogue while the transport may fail any call.
LossyTexts == {<<>>, <<"7">>}
LossyTokens ==
    {Tok("user_details", <<>>), Tok("user_top", <<>>),
     Tok("include_links_", <<"yes">>)}

LossyText ==
    \E fx \in FetchOutcomes, net \in Transports, text \in LossyTexts :
        TextEvent("u1", text, fx, net)

LossyButton ==
    \E fx \in FetchOutcomes, net \in Transports, tok \in LossyTokens :
        ButtonEvent("u1", tok, fx, net)

LossyCommand == \E net \in Transports : CommandEvent("u1", "user_top", net)

LossySpec == Init /\ [][LossyText \/ LossyButton \/ LossyCommand]_vars

\* A handler run that called a fetch function.
Dispatched == last.fetches # <<>>

\* The run sent nothing although it dispatched: every send it tried failed.
DeliveryFailed == Dispatched /\ last.out = <<>>

\* C25: after a dispatch the session of the dispatching user is gone from the
\* store whether or not the result message or the fetch-failure message could
\* be delivered, on the button path and on the free-text path alike.
C25_RemovalIndependentOfDelivery ==
    Dispatched => last.user \notin DOMAIN store

\* ------------------------------------------------------------------ reddit_service: the list functions

\* str.lower() on the letters the explored titles and keywords use
Lower(s) ==
    [i \in 1..Len(s) |->
        CASE s[i] = "A" -> "a" [] s[i] = "C" -> "c" [] s[i] = "D" -> "d"
          [] s[i] = "G" -> "g" [] s[i] = "O" -> "o" [] s[i] = "T" -> "t"
          [] OTHER -> s[i]]

\* s.split(",")
RECURSIVE SplitComma(_)
SplitComma(s) ==
    LET at == {i \in 1..Len(s) : s[i] = ","} IN
    IF at = {} THEN <<s>>
    ELSE LET i == CHOOSE i \in at : \A j \in at : i <= j
         IN  <<SubSeq(s, 1, i - 1)>> \o SplitComma(SubSeq(s, i + 1, Len(s)))

\* [keyword.strip().lower() for keyword in keywords.split(",") if keyword.strip()]
KeywordsLower(keywords) ==
    LET parts == SelectSeq(SplitComma(keywords), LAMBDA k : Strip(k) # <<>>)
    IN  [i \in 1..Len(parts) |-> Lower(Strip(parts[i]))]

\* _title_matches: any(keyword in title.lower() for keyword in keywords_lower)
TitleMatches(title, keywords_lower) ==
    \/ keywords_lower = <<>>
    \/ \E k \in 1..Len(keywords_lower) :
          LET keyword == keywords_lower[k] IN
          \E i \in 1..(Len(title) - Len(keyword) + 1) :
              SubSeq(Lower(title), i, i + Len(keyword) - 1) = keyword

\* The positions a listing called with limit=limit yields: the first limit of
\* the upstream listing, none for a limit that is not positive.
ListingLimit(upstream, limit) ==
    [j \in 1..(IF limit < Len(upstream) THEN (IF limit > 0 THEN limit ELSE 0)
               ELSE Len(upstream)) |-> j]

\* for submission in listing(limit=None): if _title_matches(...):
\* results.append(...); if len(results) >= limit: break
\* j is the position of the next submission, results the positions appended.
RECURSIVE CollectMatching(_, _, _, _, _)
CollectMatching(upstream, j, keywords_lower, limit, results) ==
    IF j > Len(upstream) THEN results
    ELSE IF TitleMatches(upstream[j], keywords_lower) THEN
        LET appended == Append(results, j) IN
        IF Len(appended) >= limit THEN appended
        ELSE CollectMatching(upstream, j + 1, keywords_lower, limit, appended)
    ELSE CollectMatching(upstream, j + 1, keywords_lower, limit, results)

\* get_top_30_captions, get_top_20_hot and get_top_20_all_time: the data dict
\* they dump, upstream being the titles of the listing they iterate.
ListFunction(fn, keywords, limit, upstream) ==
    LET keywords_lower == KeywordsLower(keywords)
        taken == IF keywords_lower # <<>>
                 THEN CollectMatching(upstream, 1, keywords_lower, limit, <<>>)
                 ELSE ListingLimit(upstream, limit)
        by_user == (fn = "get_top_30_captions")
    IN  JDict(<<KV(IF by_user THEN "username" ELSE "subreddit",
                   JStr(IF by_user THEN NameText ELSE SubredditText)),
                KV("keywords", JStr(keywords)), KV("limit", JInt(limit)),
                KV("captions_only", JBool(FALSE)),
                KV("results",
                   JList([r \in 1..Len(taken) |->
                            ResultItem(taken[r], upstream[taken[r]], by_user)]))>>)

\* The longest upstream listing explored.
MaxListing == 3

\* The upstream listings: up to MaxListing submissions with one of three
\* titles each.
Listings ==
    UNION {[1..n -> {<<"C", "a", "t">>, <<"d", "o", "g">>,
                     <<"a", " ", "c", "a", "t">>}] : n \in 0..MaxListing}

\* A list function has been called. The keyword strings are as typed: none,
\* one word, words with blanks and capitals around a comma, a comma only;
\* the limit is any integer the dialogue's int() takes.
InitFetch ==
    /\ store = EmptyStore
    /\ last = Handled("", "none", <<>>, NoToken, EmptyStore,
                      Outcome(EmptyStore, <<>>, <<>>, NoExc), Returned)
    /\ job = NoJob
    /\ web = NoWeb
    /\ running = NoneRunning
    /\ \E command \in ListKinds, upstream \in Listings,
          keywords \in {<<>>, <<"c", "a", "t">>,
                        <<" ", "D", "O", "G", " ", ",", "x">>, <<",", " ">>},
          limit \in {0 - 1, 0, 1, 2, MaxListing + 1} :
          fetched = [stage |-> "called", fn |-> FetchFunction(command),
                     keywords |-> keywords, limit |-> limit, upstream |-> upstream]

\* The function runs to its return.
ReturnList ==
    /\ fetched.stage = "called"
    /\ fetched' = [stage |-> "returned", fn |-> fetched.fn,
                   keywords |-> fetched.keywords, limit |-> fetched.limit,
                   upstream |-> fetched.upstream,
                   data |-> ListFunction(fetched.fn, fetched.keywords,
                                         fetched.limit, fetched.upstream)]
    /\ UNCHANGED <<store, last, job, web, running>>

FetchSpec == InitFetch /\ [][ReturnList]_vars

\* The results of a returned call.
FetchedResults == JGet(fetched.data, "results").items

\* The upstream positions of the results, read from their permalinks.
UpstreamPlace(item) ==
    LET at == {j \in 1..Len(fetched.upstream) :
                  JGet(item, "permalink").s = PermalinkOf(j)}
    IN  IF at = {} THEN 0 ELSE CHOOSE j \in at : TRUE

\* The keywords of the call in the sense of the service: the non-blank parts
\* between commas.
GivenKeywords ==
    {Strip(SubSeq(fetched.keywords, a, b)) :
        a \in 1..(Len(fetched.keywords) + 1), b \in 0..Len(fetched.keywords)}
    \cap {<<"c", "a", "t">>, <<"D", "O", "G">>, <<"x">>}

\* C28: a list function returns at most limit results (none for a limit that
\* is not positive), in upstream order, and with keywords given every
\* returned title contains one of them, letter case aside.
C28_AtMostLimitInOrderMatching ==
    fetched.stage = "returned"
    => /\ Len(FetchedResults) <= (IF fetched.limit > 0 THEN fetched.limit ELSE 0)
       /\ \A r \in 1..Len(FetchedResults) :
             /\ UpstreamPlace(FetchedResults[r]) > 0
             /\ JGet(FetchedResults[r], "title").s
                   = fetched.upstream[UpstreamPlace(FetchedResults[r])]
             /\ r > 1 => UpstreamPlace(FetchedResults[r - 1])
                            < UpstreamPlace(FetchedResults[r])
             /\ GivenKeywords # {}
                   => \E k \in GivenKeywords :
                         Contains(Lower(JGet(FetchedResults[r], "title").s), Lower(k))

\* ------------------------------------------------------------------ app.py: the form handlers

\* Mutant of IntOrDefault: the typed number is ignored.
IntOrDefault_AlwaysDefault(raw, default) == default

\* try: n = int(raw) if raw else default / except ValueError: n = default
IntOrDefault(raw, default) == IF raw # <<>> /\ IsInt(raw) THEN IntOf(raw) ELSE default

\* What a submit handler returns after a flash: a redirect to its own form.
Rejected(searches, message) ==
    [searches |-> searches,
     response |-> [redirect |-> "form", flash |-> message, search_id |-> 0]]

\* db.session.add(search); db.session.commit(); redirect to view_results.
\* The id is the table's next integer key; created_at is left out.
Persisted(searches, search) ==
    LET id == Len(searches) + 1 IN
    [searches |-> Append(searches, [search EXCEPT !.id = id]),
     response |-> [redirect |-> "view_results", flash |-> "", search_id |-> id]]

\* user_details_submit; fx is what get_account_details does, result what it
\* returns.
UserDetailsSubmit(searches, form, fx, result) ==
    LET username == Strip(form.name)
        period_days == IntOrDefault(Strip(form.number), 1)
    IN  IF username = <<>> THEN Rejected(searches, "Username is required.")
        ELSE IF ~fx.ok THEN Rejected(searches, "str(exc)")
        ELSE Persisted(searches,
                 [id |-> 0, search_type |-> "user_details",
                  username |-> StrV(username), subreddit |-> NoValue,
                  keywords |-> NoValue, period_days |-> IntV(period_days),
                  limit_value |-> NoValue, captions_only |-> NoValue,
                  results_json |-> result])

\* user_top_submit, subreddit_hot_submit and subreddit_top_submit
ListSubmit(route, searches, form, fx, result) ==
    LET name == Strip(form.name)
        keywords == Strip(form.keywords)
        by_user == (route = "user_top")
        limit == IntOrDefault(Strip(form.number), IF by_user THEN 30 ELSE 20)
    IN  IF name = <<>> THEN
            Rejected(searches, IF by_user THEN "Username is required."
                               ELSE "Subreddit is required.")
        ELSE IF ~fx.ok THEN Rejected(searches, "str(exc)")
        ELSE Persisted(searches,
                 [id |-> 0, search_type |-> route,
                  username |-> IF by_user THEN StrV(name) ELSE NoValue,
                  subreddit |-> IF by_user THEN NoValue ELSE StrV(name),
                  keywords |-> StrV(keywords), period_days |-> NoValue,
                  limit_value |-> IntV(limit),
                  captions_only |-> BoolV(form.captions_only),
                  results_json |-> result])

\* The most rows the searches table holds when a request arrives.
MaxSearches == 1

\* The posted forms: the name missing, blank or given; the number missing,
\* an integer or a word; keywords or none; the captions_only box.
Forms ==
    [name : {<<>>, <<" ">>, <<"a", " ">>},
     number : {<<>>, <<"7">>, <<"x">>},
     keywords : {<<>>, <<"k">>},
     captions_only : BOOLEAN]

\* A form is posted to one of the four routes and its handler runs.
Submit ==
    /\ Len(web.searches) <= MaxSearches
    /\ \E route \in QueryKinds, form \in Forms, fx \in FetchOutcomes :
          LET result == <<"{", "}">>
              r == IF route = "user_details"
                   THEN UserDetailsSubmit(web.searches, form, fx, result)
                   ELSE ListSubmit(route, web.searches, form, fx, result)
          IN  web' = [searches |-> r.searches, stage |-> "handled",
                      route |-> route, form |-> form, fx |-> fx,
                      before |-> web.searches, response |-> r.response]
    /\ UNCHANGED <<store, last, job, fetched, running>>

WebSpec == Init /\ [][Submit]_vars

\* The request's name is given and its fetch does not fail.
Accepted == Strip(web.form.name) # <<>> /\ web.fx.ok

\* The number the new row is to hold: the typed 7, else the route's default.
ExpectedNumber ==
    IF web.form.number = <<"7">> THEN 7
    ELSE CASE web.route = "user_details" -> 1
           [] web.route = "user_top" -> 30
           [] OTHER -> 20

\* The rows a request added.
NewRows == SubSeq(web.searches, Len(web.before) + 1, Len(web.searches))

\* C29: a submit persists exactly one Search row if and only if its name is
\* not blank and the fetch does not fail; otherwise the table is unchanged; a
\* number that is not an integer is replaced by the default (1, 30 or 20) and
\* the request is not rejected for it.
C29_OneSearchIffNamedAndFetched ==
    web.stage = "handled"
    => /\ SubSeq(web.searches, 1, Len(web.before)) = web.before
       /\ Len(NewRows) = (IF Accepted THEN 1 ELSE 0)
       /\ Accepted
             => /\ NewRows[1].search_type = web.route
                /\ (IF web.route = "user_details" THEN NewRows[1].period_days
                    ELSE NewRows[1].limit_value) = IntV(ExpectedNumber)
                /\ web.response.redirect = "view_results"

\* A request with a name and a number that is no integer was persisted with
\* the default, after an earlier row.
C29_Witness ==
    /\ web.stage = "handled"
    /\ Accepted
    /\ web.form.number = <<"x">>
    /\ web.route = "subreddit_hot"
    /\ Len(web.searches) = 2
    /\ web.searches[2].limit_value = IntV(20)

\* ------------------------------------------------------------------ handlers suspended at their awaits

\* What a handler does from its first access to the store to its return,
\* the transport accepting every call.
HandlerOutcome(st, u, ev) ==
    IF ev.kind = "text" THEN HandleMessage(st, u, ev.text, ev.fx, Reliable)
    ELSE ButtonCallback(st, u, ev.token, ev.fx, Reliable)

\* The store while a handler that ends with del conversation_data[user_id]
\* is suspended in the send or reply before it: handle_message has stored
\* days if it went on to fetch, button_callback has stored include_links.
BeforeCleanup(st, u, ev) ==
    IF ev.kind = "button"
    THEN SetField(st, u, "include_links", BoolV(ev.token.rest = <<"yes">>))
    ELSE IF HandlerOutcome(st, u, ev).fetches # <<>>
    THEN SetField(st, u, "days",
                  IntV(IF Strip(ev.text) # <<>> THEN IntOf(ev.text) ELSE 1))
    ELSE st

\* The handler of u runs from the await it is suspended at (for
\* handle_message, from its start) to its next await that the store is
\* touched after, or to its return. The handlers of the other users that
\* are suspended meanwhile are marked as overlapped.
Continue(u, ev, alone, overlapped) ==
    LET r == HandlerOutcome(store, u, ev)
        cleanup == u \in DOMAIN store /\ u \notin DOMAIN r.store
        others == [v \in Users |->
                     IF v # u /\ running[v].phase \in {"answer", "cleanup"}
                     THEN [running[v] EXCEPT !.overlapped = TRUE] ELSE running[v]]
    IN  /\ Drawn(ev.fx, r)
        /\ store' = IF cleanup THEN BeforeCleanup(store, u, ev) ELSE r.store
        /\ running' = [others EXCEPT ![u] =
                          [phase |-> IF cleanup THEN "cleanup" ELSE "done",
                           event |-> ev, alone |-> alone, out |-> r.out,
                           overlapped |-> overlapped]]
        /\ UNCHANGED <<last, job, fetched, web>>

\* An update for a user with no handler running is dispatched:
\* button_callback suspends in query.answer(), handle_message begins. The
\* first user goes through a user_details and a user_top dialogue, the second
\* through user_details.
Arrive ==
    \E u \in Users, fx \in FetchOutcomes :
    \E ev \in {[kind |-> "text", text |-> text, token |-> NoToken, fx |-> fx] :
                  text \in LossyTexts}
              \cup {[kind |-> "button", text |-> <<>>, token |-> tok, fx |-> fx] :
                      tok \in IF u = "u1" THEN LossyTokens
                              ELSE {Tok("user_details", <<>>)}} :
        LET alone == [v \in DOMAIN store \cap {u} |-> store[v]] IN
        /\ running[u].phase \in {"idle", "done"}
        /\ IF ev.kind = "button"
           THEN /\ running' = [running EXCEPT ![u] =
                                 [phase |-> "answer", event |-> ev, alone |-> alone,
                                  out |-> <<>>, overlapped |-> FALSE]]
                /\ UNCHANGED <<store, last, job, fetched, web>>
           ELSE Continue(u, ev, alone, FALSE)

\* A suspended handler is resumed: after query.answer() it runs on; after
\* its last send it executes del conversation_data[user_id] and returns.
Resume ==
    \E u \in Users :
        \/ /\ running[u].phase = "answer"
           /\ Continue(u, running[u].event, running[u].alone, running[u].overlapped)
        \/ /\ running[u].phase = "cleanup"
           /\ store' = StoreDel(store, u)
           /\ running' = [running EXCEPT ![u].phase = "done"]
           /\ UNCHANGED <<last, job, fetched, web>>

ConcurrentSpec == Init /\ [][Arrive \/ Resume]_vars

\* The handler of u has returned.
Finished(u) == running[u].phase = "done"

\* What the handler of u does when no other session is in the store.
RunAlone(u) == HandlerOutcome(running[u].alone, u, running[u].event)

\* A step of a handler for one id leaves the store entry of every other id
\* as it was, present or absent.
OtherSessionsUntouched ==
    [][\A u \in Users :
          running'[u] # running[u] /\ running'[u].phase # running[u].phase
          => \A v \in Users \ {u} :
                /\ (v \in DOMAIN store') = (v \in DOMAIN store)
                /\ v \in DOMAIN store => store'[v] = store[v]]_vars

\* When a handler has returned, whatever handlers of other ids ran while it
\* was suspended, its messages and its user's store entry are those of the
\* same handler run with no other session in the store.
OutcomeAsIfAlone ==
    \A u \in Users :
        Finished(u)
        => /\ running[u].out = RunAlone(u).out
           /\ (u \in DOMAIN store) = (u \in DOMAIN RunAlone(u).store)
           /\ u \in DOMAIN store => store[u] = RunAlone(u).store[u]

\* C21: handlers for different ids, interleaved at their awaits, neither
\* read nor change each other's session: each step for one id leaves every
\* other id's store entry unchanged, and a handler's outcome is the one it
\* has when run alone.
C21_SessionsIndependent == []OutcomeAsIfAlone /\ OtherSessionsUntouched

\* A dispatch of the first user has returned after the second user's handler
\* ran while it was suspended, the second user's session being in the store.
C21_Witness ==
    /\ Finished("u1")
    /\ running["u1"].overlapped
    /\ RunAlone("u1").fetches # <<>>
    /\ "u2" \in DOMAIN store

====
